---------------------------- MODULE Spec2Model ----------------------------
(***************************************************************************)
(* timer_lib (dtimer.c, test.c), POSIX backend: the branch the             *)
(* preprocessor selects when neither _WIN32/_WIN64 nor __APPLE__ is        *)
(* defined (src/dtimer.c:29-35).                                           *)
(*                                                                         *)
(* tick_t is a 64-bit unsigned integer.  TLC's integers are 32 bits wide,  *)
(* so a tick_t is kept as three base-10^9 digits <<d2, d1, d0>>, most      *)
(* significant first: the value d2*10^18 + d1*10^9 + d0.  With that radix  *)
(* tv_sec * 1000000000 + tv_nsec is the digit string of (tv_sec, tv_nsec), *)
(* and all arithmetic is exact modulo 2^64 with the program's constants.   *)
(*                                                                         *)
(* deltatime_t (a floating-point number of seconds) is kept as the exact   *)
(* decimal value [s |-> whole seconds, ns |-> billionths]; the rounding of *)
(* the double is not modelled.                                             *)
(***************************************************************************)
EXTENDS Integers, Sequences, FiniteSets, TLC

\* ------------------------------------------------------------------
\* 64-bit unsigned arithmetic (tick_t)

NSEC_PER_SEC == 1000000000

U64Zero == <<0, 0, 0>>

\* 0xFFFFFFFFFFFFFFFF = 18446744073709551615
U64Max == <<18, 446744073, 709551615>>

\* 2^64 as a digit string (one more than the largest tick_t)
TwoTo64 == <<18, 446744073, 709551616>>

U64Lt(a, b) ==
    \/ a[1] < b[1]
    \/ a[1] = b[1] /\ a[2] < b[2]
    \/ a[1] = b[1] /\ a[2] = b[2] /\ a[3] < b[3]

\* a - b on digit strings, for a >= b
RawSub(a, b) ==
    LET b0 == IF a[3] < b[3] THEN 1 ELSE 0
        b1 == IF a[2] - b0 < b[2] THEN 1 ELSE 0
    IN  << a[1] - b[1] - b1,
           a[2] - b0 - b[2] + b1 * NSEC_PER_SEC,
           a[3] - b[3] + b0 * NSEC_PER_SEC >>

\* a + b on digit strings, no reduction
RawAdd(a, b) ==
    LET s0 == a[3] + b[3]
        c0 == IF s0 >= NSEC_PER_SEC THEN 1 ELSE 0
        s1 == a[2] + b[2] + c0
        c1 == IF s1 >= NSEC_PER_SEC THEN 1 ELSE 0
    IN  << a[1] + b[1] + c1, s1 - c1 * NSEC_PER_SEC, s0 - c0 * NSEC_PER_SEC >>

\* tick_t subtraction: (a - b) mod 2^64
U64Sub(a, b) ==
    IF U64Lt(a, b) THEN RawSub(TwoTo64, RawSub(b, a)) ELSE RawSub(a, b)

\* tick_t addition: (a + b) mod 2^64
U64Add(a, b) ==
    LET s == RawAdd(a, b)
    IN  IF U64Lt(s, TwoTo64) THEN s ELSE RawSub(s, TwoTo64)

\* (tick_t)n for a non-negative int n
U64OfInt(n) == << 0, n \div NSEC_PER_SEC, n % NSEC_PER_SEC >>

\* (uint64_t)ts.tv_sec * 1000000000ULL
SecToNsec(sec) == << sec \div NSEC_PER_SEC, sec % NSEC_PER_SEC, 0 >>


\* ------------------------------------------------------------------
\* Sampled values

\* largest sub-second reading of the sampled monotonic clock, nanoseconds
MaxNsec == 2

\* whole seconds of the sampled monotonic clock: around the demonstration
\* program's 10-second limit
MonoSecs == {0, 10}

MonoDomain == { [tv_sec |-> s, tv_nsec |-> n] : s \in MonoSecs, n \in 1..MaxNsec }

\* CLOCK_REALTIME readings handed to the wall-clock readers
RealDomain ==
    { [tv_sec |-> 0, tv_nsec |-> 999999999],
      [tv_sec |-> 1, tv_nsec |-> 999],
      [tv_sec |-> 1, tv_nsec |-> 1999999] }

Threads == {1, 2}

\* the thread that runs main() of the demonstration program
MainThread == 1

\* ------------------------------------------------------------------
\* State

VARIABLES
    timerlib_freq,      \* static tick_t timerlib_freq
    timerlib_oofreq,    \* static double timerlib_oofreq: num/den, 0.0 is 0/1
    last_mark_ticks,    \* static tick_t last_mark_ticks
    mono,               \* CLOCK_MONOTONIC, a struct timespec
    call,               \* the last library call made from straight-line code
    thr,                \* per thread: position in timer_elapsed_from_lastCall
    hist,               \* history of the timer_elapsed_from_lastCall calls
    main                \* main() of test.c: position and locals

vars == << timerlib_freq, timerlib_oofreq, last_mark_ticks, mono, call, thr,
           hist, main >>

libVars == << timerlib_freq, timerlib_oofreq, last_mark_ticks >>

\* struct timespec ts = {.tv_sec = 0, .tv_nsec = 0}
TsZero == [tv_sec |-> 0, tv_nsec |-> 0]

SecondsZero == [s |-> <<0, 0>>, ns |-> 0]

NoCall ==
    [op |-> "none", arg |-> U64Zero, ts |-> TsZero, ticks |-> U64Zero,
     secs |-> SecondsZero, rc |-> 0]

ThreadIdle ==
    [pc |-> "idle", tmp |-> U64Zero, now |-> U64Zero, m |-> U64Zero,
     sec |-> SecondsZero,
     sawZero |-> FALSE, nw |-> 0, over |-> FALSE, stale |-> FALSE]

MainOff ==
    [pc |-> "off", freq |-> U64Zero, start |-> U64Zero, time |-> U64Zero,
     tick |-> U64Zero, res |-> U64Zero, dt |-> U64Zero, el |-> SecondsZero]

\* ------------------------------------------------------------------
\* The platform clock and the pure parts of the library

TsLt(a, b) ==
    \/ a.tv_sec < b.tv_sec
    \/ a.tv_sec = b.tv_sec /\ a.tv_nsec < b.tv_nsec

\* clock_gettime(clk, &ts) on a ts initialised to {0, 0}: on failure the
\* call returns non-zero and ts keeps its initial value
ClockGettime(clk, ok) ==
    IF ok THEN [rc |-> 0, ts |-> clk] ELSE [rc |-> -1, ts |-> TsZero]

\* ((uint64_t)ts.tv_sec * 1000000000ULL) + ts.tv_nsec
TimespecTicks(ts) == U64Add(SecToNsec(ts.tv_sec), U64OfInt(ts.tv_nsec))

\* timer_current_in_ticks(): the result of clock_gettime is not inspected
CurrentInTicks(ok) == TimespecTicks(ClockGettime(mono, ok).ts)

\* (double)dt / (double)f, exactly; timerlib_freq is 10^9 on this backend,
\* where the quotient is the digit string shifted by one digit
DivTicks(dt, f) ==
    CASE f = NSEC_PER_SEC -> [s |-> << dt[1], dt[2] >>, ns |-> dt[3]]

\* (double)dt * timerlib_oofreq
Scale(dt, oofreq) ==
    IF oofreq.num = 0 THEN SecondsZero ELSE DivTicks(dt, oofreq.den)

\* Faulty variant of LibInitialize: the failure path clears the reciprocal
LibInitialize_clears(ok) ==
    IF ClockGettime(mono, ok).rc # 0
    THEN [rc |-> -1, freq |-> timerlib_freq, oofreq |-> [num |-> 0, den |-> 1]]
    ELSE [rc |-> 0, freq |-> 1000000000,
          oofreq |-> [num |-> 1, den |-> 1000000000]]

\* timer_lib_initialize(): the return code and the two statics afterwards
LibInitialize(ok) ==
    IF ClockGettime(mono, ok).rc # 0
    THEN [rc |-> -1, freq |-> timerlib_freq, oofreq |-> timerlib_oofreq]
    ELSE [rc |-> 0, freq |-> 1000000000,
          oofreq |-> [num |-> 1, den |-> 1000000000]]

\* Faulty variant of LibShutdown: the teardown clears the reciprocal
LibShutdown_clears ==
    [freq |-> timerlib_freq, oofreq |-> [num |-> 0, den |-> 1],
     mark |-> last_mark_ticks]

\* timer_lib_shutdown(): the three statics afterwards
LibShutdown ==
    [freq |-> timerlib_freq, oofreq |-> timerlib_oofreq,
     mark |-> last_mark_ticks]

\* timer_ticks_per_second()
TicksPerSecond == U64OfInt(timerlib_freq)

\* Faulty variant of ElapsedTicks: a `since` later than the reading gives 0
ElapsedTicks_clamped(t, ok) ==
    IF U64Lt(CurrentInTicks(ok), t) THEN U64Zero
    ELSE RawSub(CurrentInTicks(ok), t)

\* timer_elapsed_ticks(t): dt = curclock - t
ElapsedTicks(t, ok) == U64Sub(CurrentInTicks(ok), t)

\* timer_elapsed(t)
Elapsed(t, ok) == Scale(ElapsedTicks(t, ok), timerlib_oofreq)

\* timer_ticks_to_seconds(dt)
TicksToSeconds(dt) == Scale(dt, timerlib_oofreq)

\* timer_system_in_millisecond()
SystemInMillisecond(ts) ==
    U64Add(U64OfInt(ts.tv_sec * 1000), U64OfInt(ts.tv_nsec \div 1000000))

\* timer_system_in_microsecond()
SystemInMicrosecond(ts) ==
    U64Add(U64OfInt(ts.tv_sec * 1000000), U64OfInt(ts.tv_nsec \div 1000))

\* timer_system_in_nanosecond()
SystemInNanosecond(ts) == SecToNsec(ts.tv_sec)

\* ------------------------------------------------------------------
\* History of the readings and stores of timer_elapsed_from_lastCall

HistInit ==
    [lastReading |-> U64Zero, nondecr |-> TRUE, hasFirst |-> FALSE,
     first |-> U64Zero, lastStored |-> U64Zero, called |-> FALSE,
     shut |-> FALSE, prev |-> U64Zero, hadPrev |-> FALSE,
     shutPrev |-> FALSE]

\* a call read the clock and got r
HistRead(h, r) ==
    [h EXCEPT !.nondecr = h.nondecr /\ ~U64Lt(r, h.lastReading),
              !.lastReading = r,
              !.hasFirst = TRUE,
              !.first = IF h.hasFirst THEN h.first ELSE r]

\* a call stored r as the mark on its way out (line 217): prev, hadPrev and
\* shutPrev keep what lastStored, called and shut were before that store
HistStore(h, r) ==
    [h EXCEPT !.lastStored = r, !.called = TRUE, !.shut = FALSE,
              !.prev = h.lastStored, !.hadPrev = h.called,
              !.shutPrev = h.shut]

\* ------------------------------------------------------------------
\* Initial states

LibInit ==
    /\ timerlib_freq = 1000000000
    /\ timerlib_oofreq = [num |-> 0, den |-> 1]
    /\ last_mark_ticks = U64Zero
    /\ mono = [tv_sec |-> 0, tv_nsec |-> 1]
    /\ call = NoCall
    /\ thr = [t \in Threads |-> ThreadIdle]
    /\ hist = HistInit

Init == LibInit /\ main = MainOff

\* the demonstration program at the start of main()
InitDemo == LibInit /\ main = [MainOff EXCEPT !.pc = "L13"]

\* ------------------------------------------------------------------
\* The environment: CLOCK_MONOTONIC advances

MonoTick ==
    /\ \E c \in MonoDomain : TsLt(mono, c) /\ mono' = c
    /\ UNCHANGED << libVars, call, thr, hist, main >>

\* ------------------------------------------------------------------
\* Library calls made from straight-line code: no call of
\* timer_elapsed_from_lastCall is in flight

Quiet == main.pc = "off" /\ \A t \in Threads : thr[t].pc = "idle"

timer_lib_initialize ==
    /\ Quiet
    /\ \E ok \in BOOLEAN :
         LET r == LibInitialize(ok) IN
         /\ timerlib_freq' = r.freq
         /\ timerlib_oofreq' = r.oofreq
         /\ call' = [NoCall EXCEPT !.op = "initialize", !.rc = r.rc]
    /\ UNCHANGED << last_mark_ticks, mono, thr, hist, main >>

timer_lib_shutdown ==
    /\ Quiet
    /\ timerlib_freq' = LibShutdown.freq
    /\ timerlib_oofreq' = LibShutdown.oofreq
    /\ last_mark_ticks' = LibShutdown.mark
    /\ call' = [NoCall EXCEPT !.op = "shutdown"]
    /\ hist' = [hist EXCEPT !.shut = TRUE]
    /\ UNCHANGED << mono, thr, main >>

timer_current_in_ticks ==
    /\ Quiet
    /\ \E ok \in BOOLEAN :
         call' = [NoCall EXCEPT !.op = "current_in_ticks",
                                !.ts = ClockGettime(mono, ok).ts,
                                !.ticks = CurrentInTicks(ok)]
    /\ UNCHANGED << libVars, mono, thr, hist, main >>

timer_ticks_per_second ==
    /\ Quiet
    /\ call' = [NoCall EXCEPT !.op = "ticks_per_second",
                              !.ticks = TicksPerSecond]
    /\ UNCHANGED << libVars, mono, thr, hist, main >>

\* tick values passed as `since`: zero, a reading of the clock (later than
\* some readings, earlier than others), the largest tick_t
SinceSamples == {U64Zero, <<0, 10, 1>>, U64Max}

timer_elapsed ==
    /\ Quiet
    /\ \E t \in SinceSamples, ok \in BOOLEAN :
         call' = [NoCall EXCEPT !.op = "elapsed", !.arg = t,
                                !.ts = ClockGettime(mono, ok).ts,
                                !.ticks = ElapsedTicks(t, ok),
                                !.secs = Elapsed(t, ok)]
    /\ UNCHANGED << libVars, mono, thr, hist, main >>

timer_elapsed_ticks ==
    /\ Quiet
    /\ \E t \in SinceSamples, ok \in BOOLEAN :
         call' = [NoCall EXCEPT !.op = "elapsed_ticks", !.arg = t,
                                !.ts = ClockGettime(mono, ok).ts,
                                !.ticks = ElapsedTicks(t, ok)]
    /\ UNCHANGED << libVars, mono, thr, hist, main >>

\* tick deltas passed to timer_ticks_to_seconds
DeltaSamples == {U64Zero, <<0, 1, 0>>, <<0, 10, 1>>, U64Max}

timer_ticks_to_seconds ==
    /\ Quiet
    /\ \E dt \in DeltaSamples :
         call' = [NoCall EXCEPT !.op = "ticks_to_seconds", !.arg = dt,
                                !.secs = TicksToSeconds(dt)]
    /\ UNCHANGED << libVars, mono, thr, hist, main >>

timer_system_in_millisecond ==
    /\ Quiet
    /\ \E clk \in RealDomain, ok \in BOOLEAN :
         LET ts == ClockGettime(clk, ok).ts IN
         call' = [NoCall EXCEPT !.op = "system_in_millisecond", !.ts = ts,
                                !.ticks = SystemInMillisecond(ts)]
    /\ UNCHANGED << libVars, mono, thr, hist, main >>

timer_system_in_microsecond ==
    /\ Quiet
    /\ \E clk \in RealDomain, ok \in BOOLEAN :
         LET ts == ClockGettime(clk, ok).ts IN
         call' = [NoCall EXCEPT !.op = "system_in_microsecond", !.ts = ts,
                                !.ticks = SystemInMicrosecond(ts)]
    /\ UNCHANGED << libVars, mono, thr, hist, main >>

timer_system_in_nanosecond ==
    /\ Quiet
    /\ \E clk \in RealDomain, ok \in BOOLEAN :
         LET ts == ClockGettime(clk, ok).ts IN
         call' = [NoCall EXCEPT !.op = "system_in_nanosecond", !.ts = ts,
                                !.ticks = SystemInNanosecond(ts)]
    /\ UNCHANGED << libVars, mono, thr, hist, main >>

\* ------------------------------------------------------------------
\* timer_elapsed_from_lastCall(), one step per access to shared state.
\* A thread's record: pc, the line it is about to execute; tmp, the value
\* timer_current_in_ticks() returned on line 213; now and sec, the locals;
\* m, the value of last_mark_ticks loaded on line 216.  Bookkeeping, not
\* program state: sawZero (the mark was 0 on line 212), nw (stores to the
\* mark so far), over (another thread stored the mark after this thread's
\* latest clock reading), stale (over, as it was on line 216).
\* last_mark_ticks is a plain (non-atomic) static: concurrent calls race on
\* it.  Each load and each store of it is one step, so a racing load
\* returns the value of some earlier store, as on a build whose aligned
\* 64-bit accesses are single instructions.

\* Faulty variant of MarkIsUnset: the mark is seeded on every call
MarkIsUnset_always(mark) == TRUE

\* 0 == last_mark_ticks
MarkIsUnset(mark) == mark = U64Zero

\* Faulty variant of LastCallDelta: the operands are exchanged
LastCallDelta_swapped(now, mark) == U64Sub(mark, now)

\* now - last_mark_ticks
LastCallDelta(now, mark) == U64Sub(now, mark)

\* (deltatime_t)((double)(now - last_mark_ticks) / (double)timerlib_freq)
LastCallSeconds(now, mark) == DivTicks(LastCallDelta(now, mark), timerlib_freq)

\* a store to last_mark_ticks by t overtakes every other call in flight
Overtake(f, t) ==
    [u \in Threads |->
        IF u # t /\ f[u].pc # "idle" THEN [f[u] EXCEPT !.over = TRUE]
        ELSE f[u]]

Enter(t) == [thr EXCEPT ![t] = [ThreadIdle EXCEPT !.pc = "L212"]]

\* a thread calls timer_elapsed_from_lastCall(), whatever the others do
lastCall_enter(t) ==
    /\ main.pc = "off"
    /\ thr[t].pc = "idle"
    /\ thr' = Enter(t)
    /\ call' = [NoCall EXCEPT !.op = "elapsed_from_lastCall"]
    /\ UNCHANGED << libVars, mono, hist, main >>

\* the same call made while no other call is in flight
lastCall_enter_seq(t) == Quiet /\ lastCall_enter(t)

\* if (0 == last_mark_ticks)
lastCall_L212(t) ==
    /\ thr[t].pc = "L212"
    /\ thr' = [thr EXCEPT ![t] =
                 [@ EXCEPT !.pc = IF MarkIsUnset(last_mark_ticks)
                                  THEN "L213r" ELSE "L215",
                           !.sawZero = (last_mark_ticks = U64Zero)]]
    /\ UNCHANGED << libVars, mono, call, hist, main >>

\* ... = timer_current_in_ticks();
lastCall_L213r(t) ==
    /\ thr[t].pc = "L213r"
    /\ \E ok \in BOOLEAN :
         /\ thr' = [thr EXCEPT ![t] = [@ EXCEPT !.pc = "L213w",
                                                !.tmp = CurrentInTicks(ok),
                                                !.over = FALSE]]
         /\ hist' = HistRead(hist, CurrentInTicks(ok))
    /\ UNCHANGED << libVars, mono, call, main >>

\* last_mark_ticks = ...
lastCall_L213w(t) ==
    /\ thr[t].pc = "L213w"
    /\ last_mark_ticks' = thr[t].tmp
    /\ thr' = Overtake([thr EXCEPT ![t] = [@ EXCEPT !.pc = "L215",
                                                    !.tmp = U64Zero,
                                                    !.nw = @ + 1]], t)
    /\ UNCHANGED << timerlib_freq, timerlib_oofreq, mono, call, hist, main >>

\* tick_t now = timer_current_in_ticks();
lastCall_L215(t) ==
    /\ thr[t].pc = "L215"
    /\ \E ok \in BOOLEAN :
         /\ thr' = [thr EXCEPT ![t] = [@ EXCEPT !.pc = "L216",
                                                !.now = CurrentInTicks(ok),
                                                !.over = FALSE]]
         /\ hist' = HistRead(hist, CurrentInTicks(ok))
    /\ UNCHANGED << libVars, mono, call, main >>

\* deltatime_t sec = (now - last_mark_ticks) / timerlib_freq
lastCall_L216(t) ==
    /\ thr[t].pc = "L216"
    /\ thr' = [thr EXCEPT ![t] =
                 [@ EXCEPT !.pc = "L217",
                           !.m = last_mark_ticks,
                           !.sec = LastCallSeconds(thr[t].now, last_mark_ticks),
                           !.stale = thr[t].over]]
    /\ UNCHANGED << libVars, mono, call, hist, main >>

\* last_mark_ticks = now;
lastCall_L217(t) ==
    /\ thr[t].pc = "L217"
    /\ last_mark_ticks' = thr[t].now
    /\ thr' = Overtake([thr EXCEPT ![t] = [@ EXCEPT !.pc = "L218",
                                                    !.nw = @ + 1]], t)
    /\ hist' = HistStore(hist, thr[t].now)
    /\ UNCHANGED << timerlib_freq, timerlib_oofreq, mono, call, main >>

\* return sec;
lastCall_L218(t) ==
    /\ thr[t].pc = "L218"
    /\ thr' = [thr EXCEPT ![t] = ThreadIdle]
    /\ UNCHANGED << libVars, mono, call, hist, main >>

lastCall_step(t) ==
    \/ lastCall_L212(t)
    \/ lastCall_L213r(t)
    \/ lastCall_L213w(t)
    \/ lastCall_L215(t)
    \/ lastCall_L216(t)
    \/ lastCall_L217(t)
    \/ lastCall_L218(t)

\* ------------------------------------------------------------------
\* Specifications of the library

\* a single-threaded caller: one call at a time, any order
Next ==
    \/ MonoTick
    \/ timer_lib_initialize
    \/ timer_lib_shutdown
    \/ timer_current_in_ticks
    \/ timer_ticks_per_second
    \/ timer_elapsed
    \/ timer_elapsed_ticks
    \/ timer_ticks_to_seconds
    \/ timer_system_in_millisecond
    \/ timer_system_in_microsecond
    \/ timer_system_in_nanosecond
    \/ \E t \in Threads : lastCall_enter_seq(t)
    \/ \E t \in Threads : lastCall_step(t)

Spec == Init /\ [][Next]_vars

\* threads calling timer_elapsed_from_lastCall() concurrently
NextMT ==
    \/ MonoTick
    \/ \E t \in Threads : lastCall_enter(t)
    \/ \E t \in Threads : lastCall_step(t)

SpecMT == Init /\ [][NextMT]_vars

\* ------------------------------------------------------------------
\* main() of test.c, one step per library call.  The locals start2, start3,
\* x, l1, l2 and l3 are written once and never read: they are not kept.
\* main.dt is the tick delta timer_elapsed(start) computed on line 36 and
\* main.el the seconds it returned.

\* x > 10.0
MoreThanTenSeconds(x) ==
    \/ x.s[1] > 0
    \/ x.s[2] > 10
    \/ x.s[2] = 10 /\ x.ns > 0

\* timer_lib_initialize(); the return value is dropped
main_L13 ==
    /\ main.pc = "L13"
    /\ \E ok \in BOOLEAN :
         /\ timerlib_freq' = LibInitialize(ok).freq
         /\ timerlib_oofreq' = LibInitialize(ok).oofreq
    /\ main' = [main EXCEPT !.pc = "L15"]
    /\ UNCHANGED << last_mark_ticks, mono, call, thr, hist >>

\* res = 0xFFFFFFFFFFFFFFFFULL; freq = timer_ticks_per_second();
main_L15 ==
    /\ main.pc = "L15"
    /\ main' = [main EXCEPT !.pc = "L17", !.res = U64Max,
                            !.freq = TicksPerSecond]
    /\ UNCHANGED << libVars, mono, call, thr, hist >>

\* start = timer_current_in_ticks();
main_L17 ==
    /\ main.pc = "L17"
    /\ \E ok \in BOOLEAN :
         main' = [main EXCEPT !.pc = "L18", !.start = CurrentInTicks(ok)]
    /\ UNCHANGED << libVars, mono, call, thr, hist >>

\* start2, start3 and x: three clock readings that are never used
main_L18 ==
    /\ main.pc \in {"L18", "L19", "L20"}
    /\ main' = [main EXCEPT !.pc = CASE main.pc = "L18" -> "L19"
                                     [] main.pc = "L19" -> "L20"
                                     [] main.pc = "L20" -> "L21"]
    /\ UNCHANGED << libVars, mono, call, thr, hist >>

\* l1, l2, l3 = timer_elapsed_from_lastCall() * 1e9: the call starts
main_L21 ==
    /\ main.pc \in {"L21", "L22", "L23"}
    /\ thr[MainThread].pc = "idle"
    /\ thr' = Enter(MainThread)
    /\ main' = [main EXCEPT !.pc = CASE main.pc = "L21" -> "L21c"
                                     [] main.pc = "L22" -> "L22c"
                                     [] main.pc = "L23" -> "L23c"]
    /\ UNCHANGED << libVars, mono, call, hist >>

\* ... and has returned
main_L21c ==
    /\ main.pc \in {"L21c", "L22c", "L23c"}
    /\ thr[MainThread].pc = "idle"
    /\ main' = [main EXCEPT !.pc = CASE main.pc = "L21c" -> "L22"
                                     [] main.pc = "L22c" -> "L23"
                                     [] main.pc = "L23c" -> "L28"]
    /\ UNCHANGED << libVars, mono, call, thr, hist >>

\* time = timer_current_in_ticks();
main_L28 ==
    /\ main.pc = "L28"
    /\ \E ok \in BOOLEAN :
         main' = [main EXCEPT !.pc = "L30", !.time = CurrentInTicks(ok)]
    /\ UNCHANGED << libVars, mono, call, thr, hist >>

\* do { tick = timer_elapsed_ticks( time ); } while( !tick );
main_L30 ==
    /\ main.pc = "L30"
    /\ \E ok \in BOOLEAN :
         LET tick == ElapsedTicks(main.time, ok) IN
         main' = [main EXCEPT !.tick = tick,
                              !.pc = IF tick = U64Zero THEN "L30" ELSE "L33"]
    /\ UNCHANGED << libVars, mono, call, thr, hist >>

\* if( tick < res ) res = tick;
main_L33 ==
    /\ main.pc = "L33"
    /\ main' = [main EXCEPT !.pc = "L36",
                            !.res = IF U64Lt(main.tick, main.res)
                                    THEN main.tick ELSE main.res]
    /\ UNCHANGED << libVars, mono, call, thr, hist >>

\* if( timer_elapsed( start ) > 10.0 ) break;
main_L36 ==
    /\ main.pc = "L36"
    /\ \E ok \in BOOLEAN :
         main' = [main EXCEPT !.dt = ElapsedTicks(main.start, ok),
                              !.el = Elapsed(main.start, ok),
                              !.pc = IF MoreThanTenSeconds(Elapsed(main.start, ok))
                                     THEN "L40" ELSE "L28"]
    /\ UNCHANGED << libVars, mono, call, thr, hist >>

\* printf( "Resolution: ...", ... timer_ticks_to_seconds( res ), (int)res );
main_L40 ==
    /\ main.pc = "L40"
    /\ main' = [main EXCEPT !.pc = "L42"]
    /\ UNCHANGED << libVars, mono, call, thr, hist >>

\* timer_lib_shutdown(); return 0;
main_L42 ==
    /\ main.pc = "L42"
    /\ timerlib_freq' = LibShutdown.freq
    /\ timerlib_oofreq' = LibShutdown.oofreq
    /\ last_mark_ticks' = LibShutdown.mark
    /\ main' = [main EXCEPT !.pc = "L44"]
    /\ UNCHANGED << mono, call, thr, hist >>

NextDemo ==
    \/ MonoTick
    \/ main_L13
    \/ main_L15
    \/ main_L17
    \/ main_L18
    \/ main_L21
    \/ main_L21c
    \/ \E t \in Threads : lastCall_step(t)
    \/ main_L28
    \/ main_L30
    \/ main_L33
    \/ main_L36
    \/ main_L40
    \/ main_L42

SpecDemo == InitDemo /\ [][NextDemo]_vars

\* ------------------------------------------------------------------
\* Properties

\* dt ticks at 10^9 ticks per second, as exact decimal seconds
AsSeconds(dt) == [s |-> << dt[1], dt[2] >>, ns |-> dt[3]]

\* a digit string that is a tick_t
IsU64(x) ==
    /\ x[1] >= 0 /\ x[2] >= 0 /\ x[3] >= 0
    /\ x[2] < 1000000000 /\ x[3] < 1000000000
    /\ U64Lt(x, TwoTo64)

\* C1, as stated: whenever timer_lib_initialize() has returned -1 the stored
\* frequency is 0 (timer_ticks_per_second() returns 0) and the reciprocal is
\* not set.
C1_FailedInitZeroesFrequency ==
    (call.op = "initialize" /\ call.rc = -1)
        => (timerlib_freq = 0 /\ timerlib_oofreq.num = 0)

\* C1, amended: a timer_lib_initialize() that returns -1 has written
\* nothing: the frequency is still the static 1000000000 and the reciprocal
\* is what it was before the call.
C1_FailedInitWritesNothing ==
    [][ (call'.op = "initialize" /\ call'.rc = -1)
            => /\ timerlib_freq' = timerlib_freq
               /\ timerlib_freq' = 1000000000
               /\ timerlib_oofreq' = timerlib_oofreq ]_vars

\* C1, the case: an initialize has failed after an earlier one succeeded
C1_Witness ==
    call.op = "initialize" /\ call.rc = -1 /\ timerlib_oofreq.num = 1

C8_ElapsedTicksModular ==
    call.op \in {"elapsed_ticks", "elapsed"} =>
        LET now == TimespecTicks(call.ts) IN
        /\ IsU64(call.ticks)
        /\ U64Add(call.ticks, call.arg) = now
        /\ ~U64Lt(now, call.arg) => RawAdd(call.ticks, call.arg) = now
        /\ U64Lt(now, call.arg) =>
               RawAdd(call.ticks, RawSub(call.arg, now)) = TwoTo64
        /\ call.op = "elapsed" =>
               call.secs = IF timerlib_oofreq.num = 0 THEN SecondsZero
                           ELSE AsSeconds(call.ticks)

\* C8, the case: timer_elapsed_ticks() called with a `since` later than the
\* reading it takes
C8_Witness ==
    /\ call.op = "elapsed_ticks"
    /\ U64Lt(TimespecTicks(call.ts), call.arg)
    /\ call.ts # TsZero

\* C6: timer_ticks_to_seconds(timer_ticks_per_second()) is one second in
\* every state.
C6_OneSecondOfTicksIsOneSecond ==
    (call.op = "ticks_to_seconds" /\ call.arg = TicksPerSecond)
        => call.secs = [s |-> <<0, 1>>, ns |-> 0]

\* C4: for a reading (sec, nsec) of the realtime clock the nanosecond
\* reader returns sec*10^9 + nsec, the microsecond reader that instant
\* divided by 10^3 and the millisecond reader that instant divided by 10^6.
C4_WallClockSameInstant ==
    LET instant == call.ts.tv_sec * 1000000000 + call.ts.tv_nsec IN
    /\ call.op = "system_in_nanosecond" => call.ticks = U64OfInt(instant)
    /\ call.op = "system_in_microsecond" =>
           call.ticks = U64OfInt(instant \div 1000)
    /\ call.op = "system_in_millisecond" =>
           call.ticks = U64OfInt(instant \div 1000000)

\* C2: with one call at a time and readings that never decrease, every call
\* of timer_elapsed_from_lastCall() after the first returns
\* (r_k - r_(k-1)) / frequency, r_k being the reading it stores as the mark
\* and r_(k-1) the one the previous call stored.
C2_IntervalSincePreviousCall ==
    \A t \in Threads :
        (thr[t].pc = "L218" /\ hist.hadPrev /\ hist.nondecr) =>
            /\ hist.lastStored = thr[t].now
            /\ thr[t].sec = AsSeconds(U64Sub(hist.lastStored, hist.prev))

\* C9: timer_lib_shutdown() changes neither the frequency, nor the
\* reciprocal, nor the mark, and (readings never decreasing) a
\* timer_elapsed_from_lastCall() that follows a shutdown returns the
\* interval since the reading the call before the shutdown stored.
C9_ShutdownKeepsTheMark ==
    [][ /\ (call'.op = "shutdown" /\ Quiet /\ Quiet') => UNCHANGED libVars
        /\ \A t \in Threads :
             ( /\ thr'[t].pc = "L218" /\ hist'.nondecr
               /\ hist'.hadPrev /\ hist'.shutPrev ) =>
                 thr'[t].sec = AsSeconds(U64Sub(thr'[t].now, hist'.prev)) ]_vars

\* C3, as stated: over a non-decreasing clock every call, however the calls
\* interleave, returns its own reading minus the mark it read, never
\* wrapped, and no more than the time since the earliest call.
C3_ConcurrentDeltaNeverWraps ==
    \A t \in Threads :
        (thr[t].pc \in {"L217", "L218"} /\ hist.nondecr) =>
            /\ ~U64Lt(thr[t].now, thr[t].m)
            /\ thr[t].sec = AsSeconds(RawSub(thr[t].now, thr[t].m))
            /\ ~U64Lt(thr[t].m, hist.first)

\* C3, amended: every call returns (its own reading - the mark it read)
\* mod 2^64; over a non-decreasing clock that is an unwrapped delta, no more
\* than the time since the earliest call, unless another caller stored the
\* mark between this call's clock reading and its read of the mark.
C3_DeltaWrapsOnlyWhenOvertaken ==
    \A t \in Threads :
        thr[t].pc \in {"L217", "L218"} =>
            /\ thr[t].sec = AsSeconds(RawSub(
                   IF U64Lt(thr[t].now, thr[t].m)
                   THEN RawAdd(thr[t].now, TwoTo64) ELSE thr[t].now,
                   thr[t].m))
            /\ (hist.nondecr /\ ~thr[t].stale) =>
                   /\ ~U64Lt(thr[t].now, thr[t].m)
                   /\ ~U64Lt(thr[t].m, hist.first)

\* C3, the case: a call has computed a positive delta while another call,
\* which has already stored the mark, is in flight
C3_Witness ==
    \E t, u \in Threads :
        /\ t # u
        /\ thr[t].pc = "L218" /\ thr[u].pc # "idle" /\ thr[u].nw >= 1
        /\ hist.nondecr /\ ~thr[t].stale
        /\ U64Lt(thr[t].m, thr[t].now)

\* C5, as stated: every call writes the mark exactly once, and over a
\* non-decreasing clock no step lowers the mark.
C5_MarkWrittenOnceAndForward ==
    [][ /\ \A t \in Threads : thr'[t].pc = "L218" => thr'[t].nw = 1
        /\ hist'.nondecr => ~U64Lt(last_mark_ticks', last_mark_ticks) ]_vars

\* C5, amended: a call writes the mark once at its end and once more at its
\* start when it found the mark 0; over a non-decreasing clock a store does
\* not lower the mark unless another caller stored the mark after the
\* storing call took the reading it stores.
C5_MarkForwardUnlessOvertaken ==
    [][ \A t \in Threads :
          /\ thr'[t].pc = "L218" =>
                 thr'[t].nw = IF thr'[t].sawZero THEN 2 ELSE 1
          /\ ( /\ thr[t].pc \in {"L213w", "L217"}
               /\ thr'[t].pc # thr[t].pc
               /\ hist.nondecr /\ ~thr[t].over )
                 => ~U64Lt(last_mark_ticks', last_mark_ticks) ]_vars

\* C5, the case: the first call has written the mark twice, the second
\* time moving it forward, while another call is in flight
C5_Witness ==
    \E t, u \in Threads :
        /\ t # u /\ thr[u].pc # "idle"
        /\ thr[t].pc = "L218" /\ thr[t].nw = 2
        /\ hist.nondecr /\ ~hist.hadPrev
        /\ last_mark_ticks = thr[t].now
        /\ U64Lt(hist.first, last_mark_ticks)

\* C10: in the demonstration program the outer loop exits once the clock
\* reads more than 10 seconds' worth of ticks (10 * 10^9) past `start`,
\* whatever timer_lib_initialize() returned, and the program then holds in
\* res a non-zero delta no larger than the last one observed.
C10_DemoExitsAfterTenSeconds ==
    [][ /\ ( /\ main.pc = "L36" /\ main'.pc # "L36"
             /\ ~U64Lt(TimespecTicks(mono), main.start)
             /\ main'.dt = RawSub(TimespecTicks(mono), main.start)
             /\ U64Lt(<<0, 10, 0>>, main'.dt) ) => main'.pc = "L40"
        /\ main'.pc \in {"L40", "L42", "L44"} =>
               /\ U64Lt(U64Zero, main'.res)
               /\ ~U64Lt(main'.tick, main'.res) ]_vars

=============================================================================
